---- MODULE Spec2Model ----
(***************************************************************************)
(* Model of the tax comparison tool: the forward calculators and the       *)
(* inversion utilities of src/src/taxRules.ts and the form handler of      *)
(* src/src/App.tsx.                                                        *)
(*                                                                         *)
(* Amounts are fixed-point integers: one unit is 1/Scale of a currency     *)
(* unit (1e-4), so 1000.00 is 10000000.  Every arithmetic step of the      *)
(* source is one arithmetic step here, rounded to the nearest unit the way *)
(* the source rounds to the nearest double.  A rate r is the fraction      *)
(* r*RateDen / RateDen.                                                    *)
(*                                                                         *)
(* A double carries about 16 significant digits, a unit here carries 4     *)
(* decimals.  A value computed here therefore differs from the double the  *)
(* source computes by a few units, and a strict comparison of two doubles  *)
(* that are closer than that is not decided by the units: the source's     *)
(* 349.99 - 350 is -0.009999999999990905, inside the tolerance 0.01, while *)
(* its 100.01 - 100 is 0.010000000000005116, outside it.  Where the        *)
(* early-return test of binarySearchGross falls within Resolution of its   *)
(* tolerance, both of its outcomes are behaviours of the model; what the   *)
(* source does is one of them.  binarySearchGross and the utilities built  *)
(* on it are accordingly the SET of grosses the source can return.         *)
(***************************************************************************)
EXTENDS Integers, Sequences, FiniteSets, TLC

VARIABLES
    \* one call of a forward calculator
    income,          \* argument income (units)
    payments,        \* argument salaryPayments
    country,         \* which jurisdiction's Employee function is called
    out,             \* what the call produced; outcome "none" before it
    \* one call of an inversion utility, followed by the forward re-check
    target,          \* the target net or entire expense (units)
    invPayments,     \* the payment count used for both calls
    found,           \* the utility called, its gross and the forward result
    \* one run of binarySearchGross, an iteration of its loop per step
    bs,              \* arguments: fn, target, min, max, tolerance, maxIter
    loop,            \* locals: low, high, mid, i
    pc,              \* "idle", "loop" or "done"
    ret,             \* the value returned, once pc = "done"
    evals,           \* the values fn returned, in evaluation order
    \* the form of App
    inputType, inputValue, salaryPayments, results, showDetails,
    calls            \* the taxRules calls the last handleCompare made

fwdVars == <<income, payments, country, out>>
invVars == <<target, invPayments, found>>
bsVars == <<bs, loop, pc, ret, evals>>
appVars == <<inputType, inputValue, salaryPayments, results, showDetails, calls>>
vars == <<fwdVars, invVars, bsVars, appVars>>

-----------------------------------------------------------------------------
(* Number representation *)

Scale == 100 * 100
RateDen == 100 * 100
Eur(x) == x * Scale
Cents(x) == x * 100
NaN == "NaN"

Abs(x) == IF x < 0 THEN 0 - x ELSE x
Max(a, b) == IF a >= b THEN a ELSE b

\* x * (b / c) rounded to the nearest unit (c > 0, b >= 0, b * c < 2^31).
MulDiv(x, b, c) == (x \div c) * b + (((x % c) * b + (c \div 2)) \div c)

\* x * r for a rate r given in 1/RateDen.
Rate(x, bp) == MulDiv(x, bp, RateDen)

\* x / n for a number n of payments; 0 / 0 is NaN.
DivBy(x, n) ==
    IF n = 0 THEN NaN
    ELSE (x \div n) + ((2 * (x % n) + n) \div (2 * n))

countries == <<"Bulgaria", "Estonia", "Greece">>
Country == {countries[i] : i \in 1..Len(countries)}

-----------------------------------------------------------------------------
(* Forward calculators *)

\* Mutant: no phase-out, the allowance is dropped whole at the upper threshold.
estoniaTaxFree_cliff(gross) ==
    IF gross * 12 > Eur(25200) THEN 0 ELSE Eur(654)

\* Mutant: the phase-out divides by the upper threshold instead of the span.
estoniaTaxFree_span(gross) ==
    LET annualGross == gross * 12
        annualTaxFree ==
            IF annualGross > Eur(14400) /\ annualGross <= Eur(25200)
            THEN Eur(7848) - MulDiv(annualGross - Eur(14400), 7848, 25200)
            ELSE IF annualGross > Eur(25200) THEN 0
            ELSE Eur(654) * 12
    IN  (annualTaxFree + 6) \div 12

estoniaTaxFree(gross) ==
    LET annualGross == gross * 12
        annualTaxFree ==
            IF annualGross > Eur(14400) /\ annualGross <= Eur(25200)
            THEN Eur(7848) - MulDiv(annualGross - Eur(14400), 7848, 10800)
            ELSE IF annualGross > Eur(25200) THEN 0
            ELSE Eur(654) * 12
    IN  (annualTaxFree + 6) \div 12

\* Mutant: the income tax is not clamped at zero.
estoniaIncomeTax_unclamped(taxable) == Rate(taxable, 2200)

estoniaIncomeTax(taxable) == Max(0, Rate(taxable, 2200))

estoniaEmployee(gross, nPayments) ==
    LET pension == Rate(gross, 200)
        unemp == Rate(gross, 160)
        taxFree == estoniaTaxFree(gross)
        taxable == gross - pension - unemp - taxFree
        incomeTax == estoniaIncomeTax(taxable)
        net == gross - pension - unemp - incomeTax
        socialTax == Rate(gross, 3300)
        employerUnemp == Rate(gross, 80)
        entireExpense == gross + socialTax + employerUnemp
    IN  [ tax |-> incomeTax + pension + unemp,
          net |-> net,
          entireExpense |-> entireExpense,
          breakdown |->
              ("Gross" :> gross) @@
              ("Pension (II pillar)" :> pension) @@
              ("Unemployment (Employee)" :> unemp) @@
              ("Tax-free Allowance" :> taxFree) @@
              ("Taxable Income" :> taxable) @@
              ("Income Tax (22%)" :> incomeTax) @@
              ("Net Salary" :> net) @@
              ("Social Tax (Employer)" :> socialTax) @@
              ("Unemployment (Employer)" :> employerUnemp) @@
              ("Entire Expense" :> entireExpense) ]

bulgariaEmployee(gross, nPayments) ==
    LET socSecEmployee == Rate(gross, 1378)
        taxable == gross - socSecEmployee
        incomeTax == Rate(taxable, 1000)
        net == gross - socSecEmployee - incomeTax
        socSecEmployer == Rate(gross, 1918)
        entireExpense == gross + socSecEmployer
    IN  [ tax |-> socSecEmployee + incomeTax,
          net |-> net,
          entireExpense |-> entireExpense,
          breakdown |->
              ("Gross" :> gross) @@
              ("Employee Social Security (13.78%)" :> socSecEmployee) @@
              ("Employer Social Security (19.18%)" :> socSecEmployer) @@
              ("Taxable Income" :> taxable) @@
              ("Income Tax (10%)" :> incomeTax) @@
              ("Net Salary" :> net) @@
              ("Entire Expense" :> entireExpense) ]

greeceIncomeTax(annualTaxable) ==
    IF annualTaxable <= Eur(10000) THEN Rate(annualTaxable, 900)
    ELSE IF annualTaxable <= Eur(20000)
        THEN Rate(Eur(10000), 900) + Rate(annualTaxable - Eur(10000), 2200)
    ELSE IF annualTaxable <= Eur(30000)
        THEN Rate(Eur(10000), 900) + Rate(Eur(10000), 2200)
             + Rate(annualTaxable - Eur(20000), 2800)
    ELSE IF annualTaxable <= Eur(40000)
        THEN Rate(Eur(10000), 900) + Rate(Eur(10000), 2200)
             + Rate(Eur(10000), 2800) + Rate(annualTaxable - Eur(30000), 3600)
    ELSE Rate(Eur(10000), 900) + Rate(Eur(10000), 2200)
         + Rate(Eur(10000), 2800) + Rate(Eur(10000), 3600)
         + Rate(annualTaxable - Eur(40000), 4400)

greeceSolidarity(annualTaxable) ==
    IF annualTaxable > Eur(12000) /\ annualTaxable <= Eur(20000)
        THEN Rate(annualTaxable - Eur(12000), 220)
    ELSE IF annualTaxable > Eur(20000) /\ annualTaxable <= Eur(30000)
        THEN Rate(Eur(8000), 220) + Rate(annualTaxable - Eur(20000), 500)
    ELSE IF annualTaxable > Eur(30000) /\ annualTaxable <= Eur(40000)
        THEN Rate(Eur(8000), 220) + Rate(Eur(10000), 500)
             + Rate(annualTaxable - Eur(30000), 600)
    ELSE IF annualTaxable > Eur(40000)
        THEN Rate(Eur(8000), 220) + Rate(Eur(10000), 500)
             + Rate(Eur(10000), 600) + Rate(annualTaxable - Eur(40000), 800)
    ELSE 0

greeceTax(annualSocSec, annualIncomeTax, solidarity) ==
    annualSocSec + annualIncomeTax + solidarity

greeceEmployee(gross, nPayments) ==
    LET annualGross == gross * nPayments
        monthlySocSec == Rate(gross, 1412)
        annualSocSec == monthlySocSec * nPayments
        annualTaxable == annualGross - annualSocSec
        annualIncomeTax == greeceIncomeTax(annualTaxable)
        solidarity == greeceSolidarity(annualTaxable)
        netAnnual == annualGross - annualSocSec - annualIncomeTax - solidarity
        netMonthly == DivBy(netAnnual, nPayments)
        monthlyEmployerSocSec == Rate(gross, 2229)
        annualEmployerSocSec == monthlyEmployerSocSec * nPayments
        entireExpense == annualGross + annualEmployerSocSec
        monthlyEntire == DivBy(entireExpense, nPayments)
    IN  [ tax |-> greeceTax(annualSocSec, annualIncomeTax, solidarity),
          net |-> netMonthly,
          entireExpense |-> monthlyEntire,
          breakdown |->
              ("Gross (monthly)" :> gross) @@
              ("Gross (annual)" :> annualGross) @@
              ("Employee Social Security (monthly)" :> monthlySocSec) @@
              ("Employee Social Security (annual)" :> annualSocSec) @@
              ("Employer Social Security (monthly)" :> monthlyEmployerSocSec) @@
              ("Employer Social Security (annual)" :> annualEmployerSocSec) @@
              ("Taxable Income (annual)" :> annualTaxable) @@
              ("Income Tax (annual)" :> annualIncomeTax) @@
              ("Solidarity Contribution (annual)" :> solidarity) @@
              ("Net Salary (annual)" :> netAnnual) @@
              ("Net Salary (monthly)" :> netMonthly) @@
              ("Entire Expense (annual)" :> entireExpense) @@
              ("Entire Expense (monthly)" :> monthlyEntire) ]

\* taxRules[country]['Employee']
taxRulesEmployee(c, gross, nPayments) ==
    IF c = "Bulgaria" THEN bulgariaEmployee(gross, nPayments)
    ELSE IF c = "Estonia" THEN estoniaEmployee(gross, nPayments)
    ELSE greeceEmployee(gross, nPayments)

-----------------------------------------------------------------------------
(* Forward calls: one call of an Employee function on drawn arguments *)

GrossStep == 50
MaxGrossSteps == 200

\* The monthly gross, in cents rounded down, at which Greece's annual
\* taxable income reaches t currency units with p payments a year.
GreeceThresholdCents(t, p) ==
    LET n == t * 2500
        d == 2147 * p
    IN  (n \div d) * 100 + ((n % d) * 100) \div d

ThresholdGross ==
    { Cents(c) : c \in {119999, 120000, 120001, 209999, 210000, 210001} }
    \cup { Cents(GreeceThresholdCents(t, p) + d) :
             t \in {10000, 12000, 20000, 30000, 40000}, p \in {12, 14}, d \in {0, 1} }

GrossGrid ==
    { Eur(k * GrossStep) : k \in 0..MaxGrossSteps } \cup ThresholdGross

NegativeIncome == { Eur(0 - 100), 0 - Cents(1) }
ValidPayments == {12, 14}
InvalidPayments == {0}

NoCall == [outcome |-> "none"]

FwdIdle == income = 0 /\ payments = 12 /\ country = "Bulgaria" /\ out = NoCall
InvIdle == target = 0 /\ invPayments = 12 /\ found = NoCall
BsIdle == bs = NoCall /\ loop = NoCall /\ pc = "idle" /\ ret = 0 /\ evals = <<>>
NoDetails == [c \in {} |-> FALSE]
AppIdle ==
    /\ inputType = "gross" /\ inputValue = <<>> /\ salaryPayments = 14
    /\ results = <<>> /\ showDetails = NoDetails /\ calls = NoCall

FwdInit ==
    /\ income \in GrossGrid \cup NegativeIncome
    /\ payments \in ValidPayments \cup InvalidPayments
    /\ country \in Country
    /\ out = NoCall
    /\ InvIdle /\ BsIdle /\ AppIdle

Returned(v) == [outcome |-> "returned", value |-> v]

CallBulgaria ==
    /\ out = NoCall /\ country = "Bulgaria"
    /\ out' = Returned(bulgariaEmployee(income, payments))
    /\ UNCHANGED <<income, payments, country, invVars, bsVars, appVars>>

CallEstonia ==
    /\ out = NoCall /\ country = "Estonia"
    /\ out' = Returned(estoniaEmployee(income, payments))
    /\ UNCHANGED <<income, payments, country, invVars, bsVars, appVars>>

CallGreece ==
    /\ out = NoCall /\ country = "Greece"
    /\ out' = Returned(greeceEmployee(income, payments))
    /\ UNCHANGED <<income, payments, country, invVars, bsVars, appVars>>

FwdNext == CallBulgaria \/ CallEstonia \/ CallGreece

SpecForward == FwdInit /\ [][FwdNext]_vars

ValidCall ==
    /\ out.outcome = "returned"
    /\ income >= 0
    /\ payments \in ValidPayments

\* C2: every Employee forward function returns a total tax (field tax) that
\* is at most the monthly gross passed in, for gross >= 0 and a valid
\* payment count.
C2_TaxAtMostGross == ValidCall => out.value.tax <= income

\* C3: for gross >= 0 and a valid payment count the forward calculation
\* returns net <= gross and entireExpense >= gross.
C3_NetBelowGrossBelowCost ==
    ValidCall => /\ out.value.net <= income
                 /\ out.value.entireExpense >= income

C3_Witness ==
    /\ ValidCall /\ country = "Estonia" /\ income = Eur(100)
    /\ out.value.breakdown["Taxable Income"] < 0
    /\ out.value.net < income

\* C4: net and entireExpense are non-decreasing in gross: every smaller
\* gross of the grid, with the same payment count, gives a net and an
\* entireExpense no larger than the ones returned.
C4_Monotone ==
    ValidCall =>
        \A g1 \in GrossGrid :
            g1 <= income =>
                LET r1 == taxRulesEmployee(country, g1, payments)
                IN  /\ r1.net <= out.value.net
                    /\ r1.entireExpense <= out.value.entireExpense

C4_Witness ==
    /\ ValidCall /\ country = "Estonia" /\ income = Cents(210001)
    /\ estoniaEmployee(Cents(210000), payments).net < out.value.net
    /\ out.value.breakdown["Tax-free Allowance"] = 0

\* C5: a forward calculation called with negative income or a non-positive
\* payment count fails with an explicit error and never returns a breakdown.
C5_InvalidInputFails ==
    (income < 0 \/ payments <= 0) => out.outcome \in {"none", "error"}

\* C10: Estonia's monthly allowance is 654 up to an annual gross of 14400,
\* 0 above 25200 and 654 * (1 - (annualGross - 14400) / 10800) in between,
\* and it has no jump: gross values a cent apart give allowances at most a
\* cent apart.
C10_Allowance ==
    (ValidCall /\ country = "Estonia") =>
        LET taxFree == out.value.breakdown["Tax-free Allowance"]
            annualGross == 12 * income
        IN  /\ annualGross <= Eur(14400) => taxFree = Eur(654)
            /\ annualGross > Eur(25200) => taxFree = 0
            /\ (annualGross > Eur(14400) /\ annualGross <= Eur(25200)) =>
                 Abs(taxFree - (Eur(654) - MulDiv(annualGross - Eur(14400), 654, 10800))) <= 1
            /\ \A g1 \in GrossGrid :
                 Abs(g1 - income) <= Cents(1) =>
                     Abs(estoniaEmployee(g1, payments).breakdown["Tax-free Allowance"]
                         - taxFree) <= Cents(1)

C10_Witness ==
    /\ ValidCall /\ country = "Estonia" /\ income = Eur(1650)
    /\ out.value.breakdown["Tax-free Allowance"] = Eur(327)

-----------------------------------------------------------------------------
(* Inversion utilities *)

DefaultTolerance == Scale \div 100
DefaultMaxIter == 50

\* How far a value computed in units can be from the double the source
\* computes for it inside binarySearchGross (0.001): the rounding of the
\* forward function and of up to DefaultMaxIter midpoints.
Resolution == Scale \div 1000

\* The function handed to binarySearchGross: a field of an Employee
\* calculator with the payment count held fixed, or (for runs of the
\* primitive on its own) a constant or a decreasing function.
NetOf(c, p) == [kind |-> "net", country |-> c, payments |-> p]
EntireOf(c, p) == [kind |-> "entire", country |-> c, payments |-> p]
ConstFn(v) == [kind |-> "const", value |-> v]
NegFn == [kind |-> "neg"]

Apply(fn, gross) ==
    IF fn.kind = "net" THEN taxRulesEmployee(fn.country, gross, fn.payments).net
    ELSE IF fn.kind = "entire"
        THEN taxRulesEmployee(fn.country, gross, fn.payments).entireExpense
    ELSE IF fn.kind = "const" THEN fn.value
    ELSE 0 - gross

BsArgs(fn, tgt, min, max, tolerance, maxIter) ==
    [fn |-> fn, target |-> tgt, min |-> min, max |-> max,
     tolerance |-> tolerance, maxIter |-> maxIter]

\* let low = min; let high = max; let mid = 0; i = 0
BsEntry(a) == [low |-> a.min, high |-> a.max, mid |-> 0, i |-> 0]

\* Mutant: mid = low + high / 2, the parentheses are lost.
BsMid_precedence(l) == l.low + (l.high \div 2)

\* mid = (low + high) / 2
BsMid(l) == (l.low + l.high) \div 2

\* Mutant: the difference is compared without Math.abs.
BsHit_signed(a, value) ==
    LET d == value - a.target
    IN  IF d + Resolution <= a.tolerance THEN {TRUE}
        ELSE IF d >= a.tolerance + Resolution THEN {FALSE}
        ELSE BOOLEAN

\* Math.abs(value - target) < tolerance, a strict comparison of doubles:
\* the outcomes it can have for a value known to Resolution.  Away from
\* the tolerance there is one outcome, within Resolution of it both.
BsHit(a, value) ==
    LET d == Abs(value - a.target)
    IN  IF d + Resolution <= a.tolerance THEN {TRUE}
        ELSE IF d >= a.tolerance + Resolution THEN {FALSE}
        ELSE BOOLEAN

\* Mutant: the halves are swapped.
BsNarrow_swapped(a, l, mid, value) ==
    IF value > a.target
    THEN [low |-> mid, high |-> l.high, mid |-> mid, i |-> l.i + 1]
    ELSE [low |-> l.low, high |-> mid, mid |-> mid, i |-> l.i + 1]

\* if (value > target) high = mid; else low = mid;  then i++
BsNarrow(a, l, mid, value) ==
    IF value > a.target
    THEN [low |-> l.low, high |-> mid, mid |-> mid, i |-> l.i + 1]
    ELSE [low |-> mid, high |-> l.high, mid |-> mid, i |-> l.i + 1]

\* The loop of binarySearchGross from the locals l on: the values it can
\* return.  An iteration returns mid when the test hits and narrows the
\* interval when it does not; after maxIter iterations the last mid is
\* returned.
RECURSIVE BsLoop(_, _)
BsLoop(a, l) ==
    IF l.i >= a.maxIter THEN {l.mid}
    ELSE LET mid == BsMid(l)
             value == Apply(a.fn, mid)
             hit == BsHit(a, value)
         IN  (IF TRUE \in hit THEN {mid} ELSE {})
             \cup (IF FALSE \in hit
                   THEN BsLoop(a, BsNarrow(a, l, mid, value)) ELSE {})

\* The grosses a call of binarySearchGross can return (one, unless an
\* iteration's value lies within Resolution of the tolerance).
binarySearchGross(fn, tgt, min, max, tolerance, maxIter) ==
    BsLoop(BsArgs(fn, tgt, min, max, tolerance, maxIter),
           BsEntry(BsArgs(fn, tgt, min, max, tolerance, maxIter)))

\* net / 0.77598
findBulgariaGrossForNet(net) == MulDiv(net, 50000, 38799)

\* entire / 1.1918
findBulgariaGrossForEntireExpense(entire) == MulDiv(entire, 5000, 5959)

\* The grosses the bisection over estoniaEmployee(gross).net can return.
findEstoniaGrossForNet(net) ==
    binarySearchGross(NetOf("Estonia", 12), net, net, net * 2,
                      DefaultTolerance, DefaultMaxIter)

\* Mutant: the employer's unemployment insurance is left out (entire / 1.33).
findEstoniaGrossForEntireExpense_noUnemp(entire) == MulDiv(entire, 100, 133)

\* entire / 1.338
findEstoniaGrossForEntireExpense(entire) == MulDiv(entire, 500, 669)

\* The grosses the bisection over greeceEmployee(gross, 0, n).net can return.
findGreeceGrossForNet(net, nPayments) ==
    binarySearchGross(NetOf("Greece", nPayments), net, net, net * 2,
                      DefaultTolerance, DefaultMaxIter)

\* entire / 1.2229
findGreeceGrossForEntireExpense(entire, nPayments) == MulDiv(entire, 10000, 12229)

-----------------------------------------------------------------------------
(* Inversion calls: one inversion utility on a drawn target, then the      *)
(* forward function of the same jurisdiction on the gross it returned.     *)

TargetStep == 50
MaxTargetSteps == 100

TargetGrid ==
    { Eur(k * TargetStep) : k \in 0..MaxTargetSteps }
    \cup { Cents(1), Cents(5), Eur(1), Cents(123456) }

InvInit ==
    /\ target \in TargetGrid
    /\ invPayments \in ValidPayments
    /\ found = NoCall
    /\ FwdIdle /\ BsIdle /\ AppIdle

Found(name, c, kind, gross) ==
    [ outcome |-> "returned", fn |-> name, country |-> c, kind |-> kind,
      gross |-> gross, calc |-> taxRulesEmployee(c, gross, invPayments) ]

CallFindBulgariaGrossForNet ==
    /\ found = NoCall
    /\ found' = Found("findBulgariaGrossForNet", "Bulgaria", "net",
            findBulgariaGrossForNet(target))
    /\ UNCHANGED <<target, invPayments, fwdVars, bsVars, appVars>>

CallFindBulgariaGrossForEntireExpense ==
    /\ found = NoCall
    /\ found' = Found("findBulgariaGrossForEntireExpense", "Bulgaria", "entire",
            findBulgariaGrossForEntireExpense(target))
    /\ UNCHANGED <<target, invPayments, fwdVars, bsVars, appVars>>

CallFindEstoniaGrossForNet ==
    /\ found = NoCall
    /\ \E gross \in findEstoniaGrossForNet(target) :
          found' = Found("findEstoniaGrossForNet", "Estonia", "net", gross)
    /\ UNCHANGED <<target, invPayments, fwdVars, bsVars, appVars>>

CallFindEstoniaGrossForEntireExpense ==
    /\ found = NoCall
    /\ found' = Found("findEstoniaGrossForEntireExpense", "Estonia", "entire",
            findEstoniaGrossForEntireExpense(target))
    /\ UNCHANGED <<target, invPayments, fwdVars, bsVars, appVars>>

CallFindGreeceGrossForNet ==
    /\ found = NoCall
    /\ \E gross \in findGreeceGrossForNet(target, invPayments) :
          found' = Found("findGreeceGrossForNet", "Greece", "net", gross)
    /\ UNCHANGED <<target, invPayments, fwdVars, bsVars, appVars>>

CallFindGreeceGrossForEntireExpense ==
    /\ found = NoCall
    /\ found' = Found("findGreeceGrossForEntireExpense", "Greece", "entire",
            findGreeceGrossForEntireExpense(target, invPayments))
    /\ UNCHANGED <<target, invPayments, fwdVars, bsVars, appVars>>

InvNext ==
    \/ CallFindBulgariaGrossForNet
    \/ CallFindBulgariaGrossForEntireExpense
    \/ CallFindEstoniaGrossForNet
    \/ CallFindEstoniaGrossForEntireExpense
    \/ CallFindGreeceGrossForNet
    \/ CallFindGreeceGrossForEntireExpense

SpecInverse == InvInit /\ [][InvNext]_vars

\* C1: for every jurisdiction, every positive target net and payment count
\* in {12, 14}, the forward net at the gross found for that net differs from
\* the target by less than the tolerance 0.01 (to the Resolution of the
\* model's values).
C1_NetRoundTrip ==
    (found.outcome = "returned" /\ found.kind = "net" /\ target > 0) =>
        Abs(found.calc.net - target) < DefaultTolerance + Resolution

\* C7: for every jurisdiction, every target cost >= 0 and payment count in
\* {12, 14}, the forward entireExpense at the gross found for that cost is
\* within 0.01 of the target.
C7_EntireRoundTrip ==
    (found.outcome = "returned" /\ found.kind = "entire") =>
        Abs(found.calc.entireExpense - target) < DefaultTolerance

C7_Witness ==
    /\ found.outcome = "returned"
    /\ found.fn = "findEstoniaGrossForEntireExpense"
    /\ target = Eur(2000)
    /\ found.gross > Eur(1494) /\ found.gross < Eur(1495)

\* binarySearchGross over bulgariaEmployee's net or entireExpense with the
\* defaults of the inversion utilities (tolerance 0.01, 50 iterations): the
\* grosses it can return.
BisectBulgaria(kind, min, max) ==
    binarySearchGross(
        IF kind = "net" THEN NetOf("Bulgaria", invPayments)
                        ELSE EntireOf("Bulgaria", invPayments),
        target, min, max, DefaultTolerance, DefaultMaxIter)

BulgariaFound ==
    /\ found.outcome = "returned"
    /\ found.country = "Bulgaria"
    /\ target > 0

\* C8 as stated: for every positive target, Bulgaria's closed-form gross for
\* a net, and for an entire expense, equals the gross that binarySearchGross
\* returns over the bracket [target, 2 * target], up to the Resolution of
\* the model's values.
C8_ClosedFormEqualsBisection ==
    BulgariaFound =>
        \A gross \in BisectBulgaria(found.kind, target, 2 * target) :
            Abs(found.gross - gross) <= Resolution

\* C8 as amended: the closed-form gross for a net is within 0.0145 of the
\* bisection over [target, 2 * target] (the tolerance 0.01 and the
\* Resolution 0.001, over the slope 0.77598); the closed-form gross for an
\* entire expense is within 0.0095 of the bisection over [0, target] (the
\* same over 1.1918), while the bisection over [target, 2 * target] never
\* returns less than the target.
C8_ClosedFormNearBisection ==
    BulgariaFound =>
        /\ found.kind = "net" =>
             \A gross \in BisectBulgaria("net", target, 2 * target) :
                 Abs(found.gross - gross) < 145
        /\ found.kind = "entire" =>
             /\ \A gross \in BisectBulgaria("entire", 0, target) :
                    Abs(found.gross - gross) < 95
             /\ \A gross \in BisectBulgaria("entire", target, 2 * target) :
                    gross >= target

C8_Witness ==
    /\ BulgariaFound /\ found.kind = "net" /\ target = Eur(1000)
    /\ found.gross = 12886930
    /\ BisectBulgaria("net", target, 2 * target) = { found.gross + 32 }

-----------------------------------------------------------------------------
(* One run of binarySearchGross, an iteration of its loop per step *)

BsTargetStep == 900
MaxBsTargetSteps == 5
MaxIterSmall == 2

\* The last function is constant at one tolerance below a target: with
\* that target every iteration's test is at the tolerance itself.
BsFns ==
    { NetOf("Bulgaria", 12), NetOf("Estonia", 12), NetOf("Greece", 12),
      NetOf("Greece", 14), EntireOf("Bulgaria", 12), ConstFn(Eur(1)), NegFn,
      ConstFn(Eur(BsTargetStep) - DefaultTolerance) }

BsTargets == { Eur(k * BsTargetStep) : k \in 0..MaxBsTargetSteps } \cup { Cents(1) }

BsBrackets(t) == { <<t, 2 * t>>, <<0, t>>, <<0, 0>> }

BsInit ==
    /\ \E fn \in BsFns, t \in BsTargets, maxIter \in (1..MaxIterSmall) \cup {DefaultMaxIter} :
         \E br \in BsBrackets(t) :
            bs = BsArgs(fn, t, br[1], br[2], DefaultTolerance, maxIter)
    /\ loop = BsEntry(bs)
    /\ pc = "loop"
    /\ ret = 0
    /\ evals = <<>>
    /\ FwdIdle /\ InvIdle /\ AppIdle

\* An iteration that returns mid at once.
BsReturnMid ==
    /\ pc = "loop" /\ loop.i < bs.maxIter
    /\ LET mid == BsMid(loop)
           value == Apply(bs.fn, mid)
       IN  /\ TRUE \in BsHit(bs, value)
           /\ evals' = Append(evals, value)
           /\ loop' = [loop EXCEPT !.mid = mid]
           /\ ret' = mid
           /\ pc' = "done"
    /\ UNCHANGED <<bs, fwdVars, invVars, appVars>>

\* An iteration that narrows the interval and goes on.
BsIterate ==
    /\ pc = "loop" /\ loop.i < bs.maxIter
    /\ LET mid == BsMid(loop)
           value == Apply(bs.fn, mid)
       IN  /\ FALSE \in BsHit(bs, value)
           /\ evals' = Append(evals, value)
           /\ loop' = BsNarrow(bs, loop, mid, value)
    /\ UNCHANGED <<bs, pc, ret, fwdVars, invVars, appVars>>

\* The loop is over: return mid.
BsReturnLast ==
    /\ pc = "loop" /\ loop.i >= bs.maxIter
    /\ ret' = loop.mid
    /\ pc' = "done"
    /\ UNCHANGED <<bs, loop, evals, fwdVars, invVars, appVars>>

BsNext == BsReturnMid \/ BsIterate \/ BsReturnLast

SpecBisect == BsInit /\ [][BsNext]_vars

\* The loop is synchronous code: an iteration that can run does run.
FairSpecBisect == SpecBisect /\ WF_vars(BsNext)

\* value is within the tolerance of the target, as far as units can tell:
\* Near when it is not known to be outside, Within when it is known to be
\* inside.
Near(value) == Abs(value - bs.target) < bs.tolerance + Resolution
Within(value) == Abs(value - bs.target) + Resolution <= bs.tolerance

C6_Safe ==
    /\ Len(evals) <= bs.maxIter
    /\ pc = "done" =>
         /\ Len(evals) >= 1
         /\ ret = loop.mid
         /\ evals[Len(evals)] = Apply(bs.fn, ret)
         /\ \A k \in 1..(Len(evals) - 1) : ~Within(evals[k])
         /\ Near(evals[Len(evals)]) \/ Len(evals) = bs.maxIter
         /\ ret \in binarySearchGross(bs.fn, bs.target, bs.min, bs.max,
                                      bs.tolerance, bs.maxIter)
         /\ (bs.target = 0 /\ bs.min = 0 /\ bs.max = 0 /\ Apply(bs.fn, 0) = 0) =>
                (ret = 0 /\ Len(evals) = 1)

\* C6: binarySearchGross always terminates; it evaluates fn at most maxIter
\* times, returns the midpoint of the first iteration whose value is within
\* the tolerance of the target and otherwise the midpoint of the last
\* iteration; with target 0, bracket [0, 0] and fn(0) = 0 it returns 0
\* after exactly one evaluation.
C6_Bisection == []C6_Safe /\ <>(pc = "done")

C6_Witness ==
    /\ pc = "done"
    /\ bs.fn = EntireOf("Bulgaria", 12) /\ bs.target = Eur(900) /\ bs.min = bs.target
    /\ Len(evals) = DefaultMaxIter
    /\ ~Near(evals[Len(evals)])
    /\ ret = loop.mid

\* w / 2^k, rounded down and rounded up: the width of an interval of width
\* w after k halvings, each of which rounds the midpoint to a unit.
RECURSIVE HalvedDown(_, _)
HalvedDown(w, k) == IF k = 0 THEN w ELSE HalvedDown(w \div 2, k - 1)

RECURSIVE HalvedUp(_, _)
HalvedUp(w, k) == IF k = 0 THEN w ELSE HalvedUp((w + 1) \div 2, k - 1)

\* fn is one of the non-decreasing functions and the bracket holds the
\* target between its end values.
Bracketing ==
    /\ bs.fn.kind # "neg"
    /\ Apply(bs.fn, bs.min) <= bs.target
    /\ bs.target <= Apply(bs.fn, bs.max)

C11_Inv ==
    (pc # "idle" /\ bs.min <= bs.max) =>
        /\ bs.min <= loop.low /\ loop.low <= loop.high /\ loop.high <= bs.max
        /\ Len(evals) >= 1 => (loop.low <= loop.mid /\ loop.mid <= loop.high)
        /\ loop.high - loop.low >= HalvedDown(bs.max - bs.min, loop.i)
        /\ loop.high - loop.low <= HalvedUp(bs.max - bs.min, loop.i)
        /\ Bracketing =>
             /\ Apply(bs.fn, loop.low) <= bs.target
             /\ bs.target <= Apply(bs.fn, loop.high)
        /\ pc = "done" =>
             /\ bs.min <= ret /\ ret <= bs.max
             /\ loop.low <= ret /\ ret <= loop.high

C11_Step ==
    (pc = "loop" /\ bs.min <= bs.max) =>
        /\ loop'.low >= loop.low
        /\ loop'.high <= loop.high
        /\ loop'.mid >= loop.low /\ loop'.mid <= loop.high

\* C11: for a bracket min <= max, at every iteration of binarySearchGross
\* min <= low <= mid <= high <= max, low never decreases and high never
\* increases, and after k iterations that did not return the width
\* high - low is (max - min) / 2^k (to the unit the midpoints are rounded
\* to); if moreover fn is non-decreasing and fn(min) <= target <= fn(max),
\* then fn(low) <= target <= fn(high) at every iteration, so the value
\* returned lies in [min, max] and in the final interval [low, high], in
\* which fn passes the target.
C11_BracketInvariant == []C11_Inv /\ [][C11_Step]_vars

C11_Witness ==
    /\ pc = "done"
    /\ bs.fn = NetOf("Greece", 14) /\ bs.target = Eur(1800)
    /\ bs.min = Eur(1800) /\ bs.max = Eur(3600)
    /\ bs.maxIter = DefaultMaxIter
    /\ Bracketing
    /\ loop.i >= 10
    /\ loop.low > bs.min /\ loop.high < bs.max
    /\ loop.high - loop.low <= HalvedUp(bs.max - bs.min, loop.i)
    /\ Within(Apply(bs.fn, ret))

-----------------------------------------------------------------------------
(* The form of App *)

AppValueStep == 1400
MaxAppValues == 2

inputOptions == {"net", "gross", "entire"}

\* What the number input can hold: nothing (<<>>) or one number.
InputValues == { <<>> } \cup { <<Eur(k * AppValueStep)>> : k \in 0..MaxAppValues }

AppInit ==
    /\ inputType = "gross"
    /\ inputValue = <<>>
    /\ salaryPayments = 14
    /\ results = <<>>
    /\ showDetails = NoDetails
    /\ calls = NoCall
    /\ FwdIdle /\ InvIdle /\ BsIdle

SetInputType(t) ==
    /\ inputType' = t
    /\ UNCHANGED <<inputValue, salaryPayments, results, showDetails, calls,
                   fwdVars, invVars, bsVars>>

SetInputValue(v) ==
    /\ inputValue' = v
    /\ UNCHANGED <<inputType, salaryPayments, results, showDetails, calls,
                   fwdVars, invVars, bsVars>>

SetSalaryPayments(p) ==
    /\ salaryPayments' = p
    /\ UNCHANGED <<inputType, inputValue, results, showDetails, calls,
                   fwdVars, invVars, bsVars>>

\* const payments = country === 'Greece' ? salaryPayments : 12
PaymentsFor(c) == IF c = "Greece" THEN salaryPayments ELSE 12

\* Mutant: Greece's inversion is called without the selected payment count
\* and falls back on 14.
InverseCall_default14(c, type, value, p) ==
    IF c = "Greece"
    THEN [fn |-> IF type = "net" THEN "findGreeceGrossForNet"
                                 ELSE "findGreeceGrossForEntireExpense",
          args |-> <<value, 14>>]
    ELSE [fn |-> IF c = "Bulgaria"
                 THEN (IF type = "net" THEN "findBulgariaGrossForNet"
                                       ELSE "findBulgariaGrossForEntireExpense")
                 ELSE (IF type = "net" THEN "findEstoniaGrossForNet"
                                       ELSE "findEstoniaGrossForEntireExpense"),
          args |-> <<value>>]

\* The inversion utility handleCompare calls for a country in mode net or
\* entire, with its arguments.
InverseCall(c, type, value, p) ==
    IF type = "net"
    THEN IF c = "Bulgaria" THEN [fn |-> "findBulgariaGrossForNet", args |-> <<value>>]
         ELSE IF c = "Estonia" THEN [fn |-> "findEstoniaGrossForNet", args |-> <<value>>]
         ELSE [fn |-> "findGreeceGrossForNet", args |-> <<value, p>>]
    ELSE IF c = "Bulgaria"
         THEN [fn |-> "findBulgariaGrossForEntireExpense", args |-> <<value>>]
         ELSE IF c = "Estonia"
         THEN [fn |-> "findEstoniaGrossForEntireExpense", args |-> <<value>>]
         ELSE [fn |-> "findGreeceGrossForEntireExpense", args |-> <<value, p>>]

\* What that call can return: the one gross of a closed form, or one of
\* the grosses of a bisection.
InverseResult(call) ==
    IF call.fn = "findBulgariaGrossForNet" THEN {findBulgariaGrossForNet(call.args[1])}
    ELSE IF call.fn = "findEstoniaGrossForNet" THEN findEstoniaGrossForNet(call.args[1])
    ELSE IF call.fn = "findGreeceGrossForNet"
        THEN findGreeceGrossForNet(call.args[1], call.args[2])
    ELSE IF call.fn = "findBulgariaGrossForEntireExpense"
        THEN {findBulgariaGrossForEntireExpense(call.args[1])}
    ELSE IF call.fn = "findEstoniaGrossForEntireExpense"
        THEN {findEstoniaGrossForEntireExpense(call.args[1])}
    ELSE {findGreeceGrossForEntireExpense(call.args[1], call.args[2])}

\* The body of countries.map: the rows that can be reported for a country,
\* each with the calls made to compute it.
CompareCountry(c, value) ==
    LET p == PaymentsFor(c)
        inverse == IF inputType = "gross" THEN <<>>
                   ELSE <<InverseCall(c, inputType, value, p)>>
        grosses == IF inputType = "gross" THEN {value} ELSE InverseResult(inverse[1])
    IN  { LET calc == taxRulesEmployee(c, gross, p)
          IN  [ row |-> [ country |-> c, gross |-> gross, net |-> calc.net,
                          entireExpense |-> calc.entireExpense,
                          breakdown |-> calc.breakdown ],
                inverse |-> inverse,
                forward |-> [fn |-> "Employee", args |-> <<c, gross, 0, p>>] ]
          : gross \in grosses }

HandleCompare ==
    /\ inputValue # <<>>
    /\ \E m1 \in CompareCountry(countries[1], inputValue[1]),
          m2 \in CompareCountry(countries[2], inputValue[1]),
          m3 \in CompareCountry(countries[3], inputValue[1]) :
         LET value == inputValue[1]
             made == <<m1, m2, m3>>
         IN  /\ results' = [i \in 1..Len(countries) |-> made[i].row]
             /\ calls' = [ outcome |-> "submitted", inputType |-> inputType,
                           value |-> value, salaryPayments |-> salaryPayments,
                           inverse |-> [i \in 1..Len(countries) |-> made[i].inverse],
                           forward |-> [i \in 1..Len(countries) |-> made[i].forward] ]
    /\ showDetails' = NoDetails
    /\ UNCHANGED <<inputType, inputValue, salaryPayments, fwdVars, invVars, bsVars>>

\* setShowDetails(prev => ({ ...prev, [country]: !prev[country] }))
ToggleDetails(c) ==
    /\ Len(results) > 0
    /\ showDetails' =
         [x \in (DOMAIN showDetails) \cup {c} |->
             IF x = c THEN ~(c \in DOMAIN showDetails /\ showDetails[c])
             ELSE showDetails[x]]
    /\ UNCHANGED <<inputType, inputValue, salaryPayments, results, calls,
                   fwdVars, invVars, bsVars>>

Next ==
    \/ \E t \in inputOptions : SetInputType(t)
    \/ \E v \in InputValues : SetInputValue(v)
    \/ \E p \in ValidPayments : SetSalaryPayments(p)
    \/ HandleCompare
    \/ \E c \in Country : ToggleDetails(c)

Spec == AppInit /\ [][Next]_vars

\* The payment count an inversion call works with: its second argument, or
\* the forward functions' default of 12 when it takes none.
InversePayments(call) == IF Len(call.args) >= 2 THEN call.args[2] ELSE 12

\* C9: after every submit with a non-empty value, in every mode and for each
\* country, the reported net, entireExpense and breakdown are the output of
\* the country's Employee function at the reported gross, called with the
\* selected salaryPayments for Greece and 12 for the others; in mode net or
\* entire the reported gross is what the inversion utility returned for the
\* submitted value, and the payment count of the inversion call is the one
\* of the forward call.
C9_ReportedFromForward ==
    calls.outcome = "submitted" =>
        /\ Len(results) = Len(countries)
        /\ \A i \in 1..Len(countries) :
            LET r == results[i]
                fwd == calls.forward[i]
                p == IF countries[i] = "Greece" THEN calls.salaryPayments ELSE 12
                calc == taxRulesEmployee(countries[i], r.gross, p)
            IN  /\ r.country = countries[i]
                /\ fwd.args = <<countries[i], r.gross, 0, p>>
                /\ r.net = calc.net
                /\ r.entireExpense = calc.entireExpense
                /\ r.breakdown = calc.breakdown
                /\ calls.inputType = "gross" =>
                     (r.gross = calls.value /\ calls.inverse[i] = <<>>)
                /\ calls.inputType # "gross" =>
                     /\ Len(calls.inverse[i]) = 1
                     /\ calls.inverse[i][1].args[1] = calls.value
                     /\ InversePayments(calls.inverse[i][1]) = p
                     /\ r.gross \in InverseResult(calls.inverse[i][1])

C9_Witness ==
    /\ calls.outcome = "submitted"
    /\ calls.inputType = "net" /\ calls.salaryPayments = 12 /\ calls.value = Eur(1400)
    /\ results[3].country = "Greece"
    /\ results[3].gross > Eur(1400)
    /\ calls.inverse[3][1] = [fn |-> "findGreeceGrossForNet", args |-> <<Eur(1400), 12>>]
    /\ Abs(results[3].net - Eur(1400)) < DefaultTolerance + Resolution

====
